---- MODULE Spec2Model ----
(***************************************************************************)
(* A model of the Geser Gemini server: the path sanitizer (util.rs), the   *)
(* content cache (cache.rs), the content pipeline (pages.rs), the TLS      *)
(* material provider (tls.rs) and the listener / connection handler        *)
(* (server.rs).                                                            *)
(*                                                                         *)
(* Strings are sequences of one-character strings, so that prefixes,       *)
(* suffixes, percent-escapes and path components are computed as the code  *)
(* computes them.                                                          *)
(***************************************************************************)
EXTENDS Naturals, Sequences, FiniteSets, TLC

VARIABLES
    \* ---- util.rs: one call chain of sanitize_path (specification SpecSan)
    san_pc,         \* "call" (about to call) | "ret" (returned) | "again"
    san_in,         \* the argument `path`
    san_out,        \* the Result returned
    san_again,      \* the Result of sanitize_path applied to its own output
    \* ---- pages.rs: one run of the conversion loop (specification SpecConvert)
    conv_st,        \* the loop's variables: output, in_link, link_url, link_text
    conv_open,      \* the parser's open tags, innermost last
    conv_ev,        \* the event the loop has just consumed (None before the first)
    conv_n,         \* how many events the parser has yielded
    \* ---- cache.rs: the Cache (shared by all specifications that use it)
    text_cache,     \* Cache.text_cache   : key -> String
    binary_cache,   \* Cache.binary_cache : key -> Vec<u8>
    cache_got,      \* the value returned by the last get_text / get_binary
    last_text,      \* observer: key -> value of the most recent set_text
    last_binary,    \* observer: key -> value of the most recent set_binary
    \* ---- tls.rs and server.rs: run_server and the reload task
    server_pc,      \* run_server: "loading" | "binding" | "listening" | "failed"
    acceptor,       \* the TlsAcceptor's ServerConfig (None before it is built)
    cert_disk,      \* the certificate and key files: 0 unusable, n >= 1 the n-th pair
    reload_pc,      \* reload_tls_config_task: "sleep" | "load"
    reload_log,     \* the task's last log line: "none" | "reloaded" | "failed"
    tls_latest,     \* observer: the ServerConfig of the last successful load
    \* ---- the pages directory
    fs,             \* file path -> Some(content) | None
    \* ---- server.rs: the spawned handle_connection tasks
    conn            \* connection -> the task's position and locals

sanVars == <<san_pc, san_in, san_out, san_again>>
convVars == <<conv_st, conv_open, conv_ev, conv_n>>
cacheVars == <<text_cache, binary_cache>>
cacheObs == <<cache_got, last_text, last_binary>>
tlsVars == <<server_pc, acceptor, cert_disk, reload_pc, reload_log, tls_latest>>
fsVars == <<fs>>
vars == <<sanVars, convVars, cacheVars, cacheObs, tlsVars, fsVars, conn>>

(***************************************************************************)
(* Characters and strings                                                  *)
(***************************************************************************)

\* The printable ASCII characters, code 32 (space) to 126 (~), in order.
\* Code 96, the grave accent, cannot be written in a TLA+ string and is named.
Ascii ==
    <<" ", "!", "\"", "#", "$", "%", "&", "'", "(", ")", "*", "+", ",", "-", ".", "/",
      "0", "1", "2", "3", "4", "5", "6", "7", "8", "9", ":", ";", "<", "=", ">", "?",
      "@", "A", "B", "C", "D", "E", "F", "G", "H", "I", "J", "K", "L", "M", "N", "O",
      "P", "Q", "R", "S", "T", "U", "V", "W", "X", "Y", "Z", "[", "\\", "]", "^", "_",
      "GRAVE", "a", "b", "c", "d", "e", "f", "g", "h", "i", "j", "k", "l", "m", "n", "o",
      "p", "q", "r", "s", "t", "u", "v", "w", "x", "y", "z", "{", "|", "}", "~">>

\* U+FFFD, what a lossy UTF-8 decoding puts for a byte that is no character.
Replacement == "U+FFFD"

None == [some |-> FALSE]
Some(v) == [some |-> TRUE, val |-> v]

Ok(v) == [ok |-> TRUE, val |-> v]
Err(e) == [ok |-> FALSE, err |-> e]

\* s[i..j], empty when j < i
Sub(s, i, j) == IF j < i THEN <<>> ELSE SubSeq(s, i, j)

\* str::ends_with
EndsWith(s, suffix) ==
    /\ Len(suffix) <= Len(s)
    /\ Sub(s, Len(s) - Len(suffix) + 1, Len(s)) = suffix

\* str::starts_with
StartsWith(s, prefix) ==
    /\ Len(prefix) <= Len(s)
    /\ Sub(s, 1, Len(prefix)) = prefix

(***************************************************************************)
(* util.rs: sanitize_path                                                  *)
(***************************************************************************)

HexLower == <<"0", "1", "2", "3", "4", "5", "6", "7", "8", "9", "a", "b", "c", "d", "e", "f">>
HexUpper == <<"0", "1", "2", "3", "4", "5", "6", "7", "8", "9", "A", "B", "C", "D", "E", "F">>

IsHex(c) == \E i \in 1..16 : HexLower[i] = c \/ HexUpper[i] = c
HexVal(c) == (CHOOSE i \in 1..16 : HexLower[i] = c \/ HexUpper[i] = c) - 1

\* The character a decoded byte becomes under decode_utf8_lossy.  A byte of
\* 0x80 or more that is not part of a well-formed multi-byte sequence becomes
\* U+FFFD; the inputs drawn below contain no byte that starts a multi-byte
\* sequence (0xC2..0xF4), so every such byte is ill-formed on its own.
\* Control bytes keep their code.
ByteChar(b) ==
    IF b >= 32 /\ b <= 126 THEN Ascii[b - 31]
    ELSE IF b >= 128 THEN Replacement
    ELSE "\\x" \o HexUpper[(b \div 16) + 1] \o HexUpper[(b % 16) + 1]

\* A mutation of PercentDecode: a '%' that starts no escape is dropped
\* instead of kept.
RECURSIVE PercentDecodeDropStray(_)
PercentDecodeDropStray(s) ==
    IF s = <<>> THEN <<>>
    ELSE IF s[1] = "%" /\ Len(s) >= 3 /\ IsHex(s[2]) /\ IsHex(s[3])
         THEN <<ByteChar(16 * HexVal(s[2]) + HexVal(s[3]))>>
                  \o PercentDecodeDropStray(Sub(s, 4, Len(s)))
         ELSE IF s[1] = "%"
              THEN PercentDecodeDropStray(Tail(s))
              ELSE <<s[1]>> \o PercentDecodeDropStray(Tail(s))

\* percent_decode_str(path).decode_utf8_lossy(): "%XY" with two hex digits is
\* the byte 0xXY, every other character (a '%' that starts no escape too)
\* stands for itself.
RECURSIVE PercentDecode(_)
PercentDecode(s) ==
    IF s = <<>> THEN <<>>
    ELSE IF s[1] = "%" /\ Len(s) >= 3 /\ IsHex(s[2]) /\ IsHex(s[3])
         THEN <<ByteChar(16 * HexVal(s[2]) + HexVal(s[3]))>>
                  \o PercentDecode(Sub(s, 4, Len(s)))
         ELSE <<s[1]>> \o PercentDecode(Tail(s))

\* The pieces of s between '/' characters (empty pieces included).
RECURSIVE SplitSlash(_)
SplitSlash(s) ==
    IF \A i \in 1..Len(s) : s[i] # "/" THEN <<s>>
    ELSE LET i == CHOOSE k \in 1..Len(s) :
                      s[k] = "/" /\ \A j \in 1..(k - 1) : s[j] # "/"
         IN  <<Sub(s, 1, i - 1)>> \o SplitSlash(Sub(s, i + 1, Len(s)))

\* One piece as a std::path::Component (Unix): empty pieces vanish, "." is
\* kept only as the first component of a relative path (CurDir), ".." is
\* ParentDir, everything else Normal.
PieceComponents(piece, first, rooted) ==
    IF piece = <<>> THEN <<>>
    ELSE IF piece = <<".">>
         THEN IF first /\ ~rooted THEN <<[kind |-> "CurDir"]>> ELSE <<>>
    ELSE IF piece = <<".", ".">> THEN <<[kind |-> "ParentDir"]>>
    ELSE <<[kind |-> "Normal", name |-> piece]>>

RECURSIVE PiecesComponents(_, _, _)
PiecesComponents(pieces, first, rooted) ==
    IF pieces = <<>> THEN <<>>
    ELSE PieceComponents(pieces[1], first, rooted)
             \o PiecesComponents(Tail(pieces), FALSE, rooted)

\* Path::new(s).components() on Unix
Components(s) ==
    LET rooted == s # <<>> /\ s[1] = "/"
    IN  (IF rooted THEN <<[kind |-> "RootDir"]>> ELSE <<>>)
            \o PiecesComponents(SplitSlash(s), TRUE, rooted)

HasParentDir(comps) == \E i \in 1..Len(comps) : comps[i].kind = "ParentDir"

\* A mutation of sanitize_path: the components are taken from the path as
\* given, before percent-decoding.
sanitize_path_raw_check(path) ==
    LET decoded == PercentDecode(path)
    IN  IF HasParentDir(Components(path))
        THEN Err("Invalid path: directory traversal is not allowed")
        ELSE Ok(decoded)

\* util.rs sanitize_path: Ok(path.to_string_lossy()) is the decoded string
\* itself, not the components joined again.
sanitize_path(path) ==
    LET decoded == PercentDecode(path)
    IN  IF HasParentDir(Components(decoded))
        THEN Err("Invalid path: directory traversal is not allowed")
        ELSE Ok(decoded)

(***************************************************************************)
(* cache.rs: Cache                                                         *)
(***************************************************************************)

EmptyMap == [k \in {} |-> <<>>]

\* DashMap::insert: the key's entry is created or replaced
Put(map, key, value) ==
    [k \in (DOMAIN map) \cup {key} |-> IF k = key THEN value ELSE map[k]]

\* Cache::new
Cache_new == text_cache = EmptyMap /\ binary_cache = EmptyMap

\* Cache::get_text
get_text(key) == IF key \in DOMAIN text_cache THEN Some(text_cache[key]) ELSE None

\* Cache::get_binary
get_binary(key) == IF key \in DOMAIN binary_cache THEN Some(binary_cache[key]) ELSE None

\* A mutation of set_text: one map serves both namespaces.
set_text_shared(key, value) ==
    /\ text_cache' = Put(text_cache, key, value)
    /\ binary_cache' = Put(binary_cache, key, value)

\* Cache::set_text
set_text(key, value) ==
    /\ text_cache' = Put(text_cache, key, value)
    /\ UNCHANGED binary_cache

\* Cache::set_binary
set_binary(key, value) ==
    /\ binary_cache' = Put(binary_cache, key, value)
    /\ UNCHANGED text_cache

(***************************************************************************)
(* server.rs: the request line, and Url::parse(req_line).path()            *)
(***************************************************************************)

IsUpper(c) == \E i \in 34..59 : Ascii[i] = c
IsLower(c) == \E i \in 66..91 : Ascii[i] = c
IsAlpha(c) == IsUpper(c) \/ IsLower(c)
IsDigit(c) == \E i \in 17..26 : Ascii[i] = c

IsWhitespace(c) == c \in {" ", "\t", "\r", "\n"}

\* str::trim: leading and trailing whitespace removed
RECURSIVE TrimStart(_)
TrimStart(s) ==
    IF s # <<>> /\ IsWhitespace(s[1]) THEN TrimStart(Tail(s)) ELSE s

RECURSIVE TrimEnd(_)
TrimEnd(s) ==
    IF s # <<>> /\ IsWhitespace(s[Len(s)]) THEN TrimEnd(Sub(s, 1, Len(s) - 1)) ELSE s

Trim(s) == TrimEnd(TrimStart(s))

\* The index of the first character of s that is in cs, Len(s) + 1 if none.
FirstOf(s, cs) ==
    IF \E i \in 1..Len(s) : s[i] \in cs
    THEN CHOOSE i \in 1..Len(s) : s[i] \in cs /\ \A j \in 1..(i - 1) : s[j] \notin cs
    ELSE Len(s) + 1

\* "." and its escaped spellings
IsSingleDotSegment(seg) ==
    seg \in { <<".">>, <<"%", "2", "e">>, <<"%", "2", "E">> }

\* ".." and its escaped spellings
IsDoubleDotSegment(seg) ==
    \E a, b \in { <<".">>, <<"%", "2", "e">>, <<"%", "2", "E">> } : seg = a \o b

\* The characters the URL parser escapes in a path.
PathEscaped == {" ", "\"", "#", "<", ">", "?", "GRAVE", "{", "}"}

EscapeChar(c) ==
    IF c \in PathEscaped
    THEN LET code == 31 + (CHOOSE i \in 1..95 : Ascii[i] = c)
         IN  <<"%", HexUpper[(code \div 16) + 1], HexUpper[(code % 16) + 1]>>
    ELSE <<c>>

RECURSIVE EscapeSegment(_)
EscapeSegment(seg) ==
    IF seg = <<>> THEN <<>> ELSE EscapeChar(seg[1]) \o EscapeSegment(Tail(seg))

\* The URL parser's path state over the segments that follow the first '/':
\* a double-dot segment removes the segment before it, a single-dot segment
\* is dropped, and either leaves an empty last segment when it ends the path.
RECURSIVE PathSegments(_, _)
PathSegments(segs, acc) ==
    IF segs = <<>> THEN acc
    ELSE LET seg == segs[1]
             last == Len(segs) = 1
             popped == IF acc = <<>> THEN acc ELSE Sub(acc, 1, Len(acc) - 1)
         IN  IF IsDoubleDotSegment(seg)
             THEN PathSegments(Tail(segs), IF last THEN Append(popped, <<>>) ELSE popped)
             ELSE IF IsSingleDotSegment(seg)
             THEN PathSegments(Tail(segs), IF last THEN Append(acc, <<>>) ELSE acc)
             ELSE PathSegments(Tail(segs), Append(acc, EscapeSegment(seg)))

RECURSIVE JoinSegments(_)
JoinSegments(segs) ==
    IF segs = <<>> THEN <<>> ELSE <<"/">> \o segs[1] \o JoinSegments(Tail(segs))

\* The path of a URL with a hierarchical path: empty when nothing follows
\* the authority, else the normalised segments.
HierarchicalPath(raw) ==
    IF raw = <<>> THEN <<>>
    ELSE JoinSegments(PathSegments(SplitSlash(Tail(raw)), <<>>))

\* Code points a host may not contain.
ForbiddenHost == {" ", "#", "<", ">", "?", "@", "[", "\\", "]", "^", "|", "%", ":"}

\* Url::parse(input) followed by .path(), for a scheme that is not one of
\* the parser's special schemes (http, https, ws, wss, ftp, file) and an
\* authority that is a host name alone.  No scheme: the parse fails (a
\* relative URL without a base).  "scheme://host" + path: the path is
\* normalised; "scheme:/" + path likewise; "scheme:" + anything else: the
\* rest is an opaque path, kept as it is.
UrlPath(input) ==
    LET colon == FirstOf(input, {":"})
    IN  IF \/ input = <<>>
           \/ ~IsAlpha(input[1])
           \/ colon > Len(input)
           \/ \E i \in 2..(colon - 1) :
                  ~(IsAlpha(input[i]) \/ IsDigit(input[i]) \/ input[i] \in {"+", "-", "."})
        THEN Err("RelativeUrlWithoutBase")
        ELSE LET rest == Sub(input, colon + 1, Len(input))
                 body == Sub(rest, 1, FirstOf(rest, {"?", "#"}) - 1)
             IN  IF StartsWith(body, <<"/", "/">>)
                 THEN LET auth == Sub(body, 3, Len(body))
                          hostEnd == FirstOf(auth, {"/"})
                          host == Sub(auth, 1, hostEnd - 1)
                      IN  IF \E i \in 1..Len(host) : host[i] \in ForbiddenHost
                          THEN Err("InvalidDomainCharacter")
                          ELSE Ok(HierarchicalPath(Sub(auth, hostEnd, Len(auth))))
                 ELSE IF StartsWith(body, <<"/">>)
                 THEN Ok(HierarchicalPath(body))
                 ELSE Ok(body)

(***************************************************************************)
(* pages.rs: the conversion of Markdown events to Gemini text              *)
(*                                                                         *)
(* A Markdown file is held as the sequence of events pulldown-cmark        *)
(* yields for it; an event is a record with its kind in field ev.          *)
(***************************************************************************)

\* A mutation of Repeat: one character whatever the count.
RepeatOnce(c, n) == <<c>>

RECURSIVE Repeat(_, _)
Repeat(c, n) == IF n = 0 THEN <<>> ELSE <<c>> \o Repeat(c, n - 1)

\* The loop's variables before the first event (pages.rs 25..30)
ConvertInit ==
    [output |-> <<>>, in_link |-> FALSE, link_url |-> <<>>, link_text |-> <<>>]

\* A mutation of ConvertEvent: text goes to the output inside a link too.
ConvertEventTextOut(st, e) ==
    CASE e.ev = "StartHeading" ->
            [st EXCEPT !.output = @ \o <<"\n">> \o Repeat("#", e.level) \o <<" ">>]
      [] e.ev \in {"EndHeading", "StartParagraph", "EndParagraph", "SoftBreak", "HardBreak"} ->
            [st EXCEPT !.output = @ \o <<"\n">>]
      [] e.ev = "StartLink" ->
            [st EXCEPT !.in_link = TRUE, !.link_url = e.url, !.link_text = <<>>]
      [] e.ev = "EndLink" ->
            LET text == IF Trim(st.link_text) = <<>> THEN st.link_url ELSE st.link_text
            IN  [st EXCEPT !.in_link = FALSE,
                           !.output = @ \o <<"\n", "=", ">", " ">> \o st.link_url
                                        \o <<" ">> \o text \o <<"\n">>]
      [] e.ev = "StartImage" ->
            [st EXCEPT !.output = @ \o <<"\n", "=", ">", " ">> \o e.url
                                    \o <<" ">> \o e.title \o <<"\n">>]
      [] e.ev = "Code" ->
            [st EXCEPT !.output = @ \o <<"GRAVE">> \o e.code \o <<"GRAVE">>]
      [] e.ev = "Text" ->
            [st EXCEPT !.output = @ \o e.text]
      [] OTHER -> st

\* A mutation of ConvertEvent: a link start keeps the text of the link
\* before it.
ConvertEventKeepText(st, e) ==
    CASE e.ev = "StartHeading" ->
            [st EXCEPT !.output = @ \o <<"\n">> \o Repeat("#", e.level) \o <<" ">>]
      [] e.ev \in {"EndHeading", "StartParagraph", "EndParagraph", "SoftBreak", "HardBreak"} ->
            [st EXCEPT !.output = @ \o <<"\n">>]
      [] e.ev = "StartLink" ->
            [st EXCEPT !.in_link = TRUE, !.link_url = e.url]
      [] e.ev = "EndLink" ->
            LET text == IF Trim(st.link_text) = <<>> THEN st.link_url ELSE st.link_text
            IN  [st EXCEPT !.in_link = FALSE,
                           !.output = @ \o <<"\n", "=", ">", " ">> \o st.link_url
                                        \o <<" ">> \o text \o <<"\n">>]
      [] e.ev = "StartImage" ->
            [st EXCEPT !.output = @ \o <<"\n", "=", ">", " ">> \o e.url
                                    \o <<" ">> \o e.title \o <<"\n">>]
      [] e.ev = "Code" ->
            [st EXCEPT !.output = @ \o <<"GRAVE">> \o e.code \o <<"GRAVE">>]
      [] e.ev = "Text" ->
            IF st.in_link
            THEN [st EXCEPT !.link_text = @ \o e.text]
            ELSE [st EXCEPT !.output = @ \o e.text]
      [] OTHER -> st

\* One turn of the loop `for event in parser` (pages.rs 33..93)
ConvertEvent(st, e) ==
    CASE e.ev = "StartHeading" ->
            [st EXCEPT !.output = @ \o <<"\n">> \o Repeat("#", e.level) \o <<" ">>]
      [] e.ev = "EndHeading" ->
            [st EXCEPT !.output = @ \o <<"\n">>]
      [] e.ev = "StartParagraph" ->
            [st EXCEPT !.output = @ \o <<"\n">>]
      [] e.ev = "EndParagraph" ->
            [st EXCEPT !.output = @ \o <<"\n">>]
      [] e.ev = "StartLink" ->
            [st EXCEPT !.in_link = TRUE, !.link_url = e.url, !.link_text = <<>>]
      [] e.ev = "EndLink" ->
            LET text == IF Trim(st.link_text) = <<>> THEN st.link_url ELSE st.link_text
            IN  [st EXCEPT !.in_link = FALSE,
                           !.output = @ \o <<"\n", "=", ">", " ">> \o st.link_url
                                        \o <<" ">> \o text \o <<"\n">>]
      [] e.ev = "StartImage" ->
            [st EXCEPT !.output = @ \o <<"\n", "=", ">", " ">> \o e.url
                                    \o <<" ">> \o e.title \o <<"\n">>]
      [] e.ev = "Code" ->
            [st EXCEPT !.output = @ \o <<"GRAVE">> \o e.code \o <<"GRAVE">>]
      [] e.ev = "Text" ->
            IF st.in_link
            THEN [st EXCEPT !.link_text = @ \o e.text]
            ELSE [st EXCEPT !.output = @ \o e.text]
      [] e.ev \in {"SoftBreak", "HardBreak"} ->
            [st EXCEPT !.output = @ \o <<"\n">>]
      [] OTHER -> st

RECURSIVE ConvertFrom(_, _)
ConvertFrom(st, events) ==
    IF events = <<>> THEN st
    ELSE ConvertFrom(ConvertEvent(st, events[1]), Tail(events))

\* The converted content of a file: `output` after the loop
Convert(events) == ConvertFrom(ConvertInit, events).output

\* No conversion is under way.
ConvIdle ==
    /\ conv_st = ConvertInit /\ conv_open = <<>> /\ conv_ev = None /\ conv_n = 0

(***************************************************************************)
(* pages.rs: the files the pipeline reads                                  *)
(***************************************************************************)

\* Settings.pages_dir
pages_dir == <<"p", "a", "g", "e", "s">>

\* serve_markdown: file_path (pages.rs 9..13)
markdown_file_path(safe_path) ==
    IF safe_path = <<"/">>
    THEN pages_dir \o <<"/", "i", "n", "d", "e", "x", ".", "m", "d">>
    ELSE pages_dir \o safe_path \o <<".", "m", "d">>

\* serve_static_file: file_path (pages.rs 102)
static_file_path(safe_path) == pages_dir \o safe_path

\* A mutation of get_mime_type: only the JPEG extensions are known.
get_mime_type_jpeg_only(path) ==
    IF EndsWith(path, <<".", "j", "p", "g">>) \/ EndsWith(path, <<".", "j", "p", "e", "g">>)
    THEN "image/jpeg"
    ELSE "application/octet-stream"

\* get_mime_type (pages.rs 115..125)
get_mime_type(path) ==
    IF EndsWith(path, <<".", "j", "p", "g">>) \/ EndsWith(path, <<".", "j", "p", "e", "g">>)
    THEN "image/jpeg"
    ELSE IF EndsWith(path, <<".", "p", "n", "g">>) THEN "image/png"
    ELSE IF EndsWith(path, <<".", "g", "i", "f">>) THEN "image/gif"
    ELSE "application/octet-stream"

\* A mutation of IsStaticRequest: ".gif" is not among the extensions.
IsStaticRequestNoGif(safe_path) ==
    \/ EndsWith(safe_path, <<".", "j", "p", "g">>)
    \/ EndsWith(safe_path, <<".", "j", "p", "e", "g">>)
    \/ EndsWith(safe_path, <<".", "p", "n", "g">>)

\* handle_connection: the test that routes a path to serve_static_file
\* (server.rs 85..86)
IsStaticRequest(safe_path) ==
    \/ EndsWith(safe_path, <<".", "j", "p", "g">>)
    \/ EndsWith(safe_path, <<".", "j", "p", "e", "g">>)
    \/ EndsWith(safe_path, <<".", "p", "n", "g">>)
    \/ EndsWith(safe_path, <<".", "g", "i", "f">>)

(***************************************************************************)
(* tls.rs: loading the TLS material, and the reload task                   *)
(***************************************************************************)

\* load_tls_config(cert_path, key_path): the ServerConfig built from the
\* files as they are now, or the error of a file that cannot be used
load_tls_config ==
    IF cert_disk = 0 THEN Err("No valid private key found") ELSE Ok(cert_disk)

\* A mutation of LoadInitialTls: run_server goes on to bind when the load
\* fails.
LoadInitialTlsLenient ==
    /\ server_pc = "loading"
    /\ LET r == load_tls_config
       IN  IF r.ok
           THEN /\ acceptor' = Some(r.val)
                /\ tls_latest' = Some(r.val)
           ELSE UNCHANGED <<acceptor, tls_latest>>
    /\ server_pc' = "binding"
    /\ UNCHANGED <<cert_disk, reload_pc, reload_log>>
    /\ UNCHANGED <<sanVars, convVars, cacheVars, cacheObs, fsVars, conn>>

\* run_server: get_tls_config(..).await? and TlsAcceptor::from (server.rs 29..30)
LoadInitialTls ==
    /\ server_pc = "loading"
    /\ LET r == load_tls_config
       IN  IF r.ok
           THEN /\ acceptor' = Some(r.val)
                /\ tls_latest' = Some(r.val)
                /\ server_pc' = "binding"
           ELSE /\ server_pc' = "failed"
                /\ UNCHANGED <<acceptor, tls_latest>>
    /\ UNCHANGED <<cert_disk, reload_pc, reload_log>>
    /\ UNCHANGED <<sanVars, convVars, cacheVars, cacheObs, fsVars, conn>>

\* run_server: TcpListener::bind(..).await ...? and Cache::new (server.rs 33..38)
Bind(bound) ==
    /\ server_pc = "binding"
    /\ server_pc' = IF bound THEN "listening" ELSE "failed"
    /\ UNCHANGED <<acceptor, cert_disk, reload_pc, reload_log, tls_latest>>
    /\ UNCHANGED <<sanVars, convVars, cacheVars, cacheObs, fsVars, conn>>

\* reload_tls_config_task: sleep(interval).await is over (tls.rs 55)
ReloadWake ==
    /\ server_pc # "failed"
    /\ reload_pc = "sleep"
    /\ reload_pc' = "load"
    /\ UNCHANGED <<server_pc, acceptor, cert_disk, reload_log, tls_latest>>
    /\ UNCHANGED <<sanVars, convVars, cacheVars, cacheObs, fsVars, conn>>

\* A mutation of ReloadLoad: a failed load ends the task.
ReloadLoadStopOnError ==
    /\ server_pc # "failed"
    /\ reload_pc = "load"
    /\ LET r == load_tls_config
       IN  IF r.ok
           THEN /\ reload_log' = "reloaded"
                /\ tls_latest' = Some(r.val)
                /\ reload_pc' = "sleep"
           ELSE /\ reload_log' = "failed"
                /\ reload_pc' = "stopped"
                /\ UNCHANGED tls_latest
    /\ UNCHANGED <<server_pc, acceptor, cert_disk>>
    /\ UNCHANGED <<sanVars, convVars, cacheVars, cacheObs, fsVars, conn>>

\* reload_tls_config_task: match load_tls_config(..) (tls.rs 56..64).  The
\* new configuration is logged and dropped; nothing else is assigned.
ReloadLoad ==
    /\ server_pc # "failed"
    /\ reload_pc = "load"
    /\ LET r == load_tls_config
       IN  IF r.ok
           THEN /\ reload_log' = "reloaded"
                /\ tls_latest' = Some(r.val)
           ELSE /\ reload_log' = "failed"
                /\ UNCHANGED tls_latest
    /\ reload_pc' = "sleep"
    /\ UNCHANGED <<server_pc, acceptor, cert_disk>>
    /\ UNCHANGED <<sanVars, convVars, cacheVars, cacheObs, fsVars, conn>>

\* The certificate and key files are replaced (v >= 1) or damaged (v = 0).
CertRotate(v) ==
    /\ server_pc # "failed"
    /\ v # cert_disk
    /\ cert_disk' = v
    /\ UNCHANGED <<server_pc, acceptor, reload_pc, reload_log, tls_latest>>
    /\ UNCHANGED <<sanVars, convVars, cacheVars, cacheObs, fsVars, conn>>

(***************************************************************************)
(* The pages directory                                                     *)
(***************************************************************************)

index_md == pages_dir \o <<"/", "i", "n", "d", "e", "x", ".", "m", "d">>
secret_md == pages_dir \o <<"/", "s", "e", "c", "r", "e", "t", ".", "m", "d">>
a_png == pages_dir \o <<"/", "a", ".", "p", "n", "g">>

\* The files the pages directory may hold.
Files == {index_md, secret_md, a_png}

\* "# Hi"
DocA == << [ev |-> "StartHeading", level |-> 1],
           [ev |-> "Text", text |-> <<"H", "i">>],
           [ev |-> "EndHeading"] >>

\* "[Go](x)"
DocB == << [ev |-> "StartParagraph"],
           [ev |-> "StartLink", url |-> <<"x">>],
           [ev |-> "Text", text |-> <<"G", "o">>],
           [ev |-> "EndLink"],
           [ev |-> "EndParagraph"] >>

ImgA == <<255, 216, 255, 224>>
ImgB == <<137, 80>>

\* What a file may hold: Markdown (as its events) or bytes.
FileContents(f) ==
    IF EndsWith(f, <<".", "m", "d">>) THEN {DocA, DocB} ELSE {ImgA, ImgB}

\* fs::read_to_string(&file_path) / fs::read(&file_path)
fs_read(file_path) ==
    IF file_path \in DOMAIN fs /\ fs[file_path].some
    THEN Ok(fs[file_path].val)
    ELSE Err("NotFound")

\* A file of the pages directory is created or rewritten by its owner.
FsWrite(f, content) ==
    /\ server_pc # "failed"
    /\ fs[f] # Some(content)
    /\ fs' = [fs EXCEPT ![f] = Some(content)]
    /\ UNCHANGED <<sanVars, convVars, cacheVars, cacheObs, tlsVars, conn>>

(***************************************************************************)
(* server.rs: the accept loop and handle_connection                        *)
(***************************************************************************)

\* How many connections are accepted.
MaxConns == 2

Conns == 1..MaxConns

NotFoundLine == "51 Not Found\r\n"
SuccessLine(meta) == "20 " \o meta \o "\r\n"

\* A task's locals before it is spawned.  bytes_read is what read_line
\* returned (None: not yet, or an error); reads and cache_ops count the
\* task's file reads and cache calls; prior holds the files that requests
\* finished before this one was accepted had been served from.
ConnInit ==
    [pc |-> "Idle", material |-> None, bytes_read |-> None,
     line |-> <<>>, safe_path |-> None,
     file_path |-> <<>>, static |-> FALSE, data |-> None,
     status |-> "", body |-> None, out |-> <<>>, result |-> "running",
     reads |-> 0, cache_ops |-> 0, prior |-> {}]

ServedFiles ==
    { conn[d].file_path : d \in { e \in Conns : conn[e].pc = "Closed" /\ conn[e].body.some } }

\* run_server: listener.accept(), acceptor.clone(), tokio::spawn (server.rs 41..49)
Accept(c) ==
    /\ server_pc = "listening"
    /\ conn[c].pc = "Idle"
    /\ \A d \in Conns : d < c => conn[d].pc # "Idle"
    /\ conn' = [conn EXCEPT ![c].pc = "Accepted",
                            ![c].material = acceptor,
                            ![c].prior = ServedFiles]
    /\ UNCHANGED <<sanVars, convVars, cacheVars, cacheObs, tlsVars, fsVars>>

\* handle_connection is polled for the first time: acceptor.accept(stream)
StartHandshake(c) ==
    /\ server_pc = "listening"
    /\ conn[c].pc = "Accepted"
    /\ conn' = [conn EXCEPT ![c].pc = "Handshaking"]
    /\ UNCHANGED <<sanVars, convVars, cacheVars, cacheObs, tlsVars, fsVars>>

\* A mutation of Handshake: a failed handshake ends run_server.
HandshakeFatal(c, done) ==
    /\ server_pc = "listening"
    /\ conn[c].pc = "Handshaking"
    /\ conn' = IF done
               THEN [conn EXCEPT ![c].pc = "AwaitingRequestLine"]
               ELSE [conn EXCEPT ![c].pc = "Closed", ![c].result = "Err:handshake"]
    /\ server_pc' = IF done THEN server_pc ELSE "failed"
    /\ UNCHANGED <<acceptor, cert_disk, reload_pc, reload_log, tls_latest>>
    /\ UNCHANGED <<sanVars, convVars, cacheVars, cacheObs, fsVars>>

\* acceptor.accept(stream).await ...? (server.rs 63..64)
Handshake(c, done) ==
    /\ server_pc = "listening"
    /\ conn[c].pc = "Handshaking"
    /\ conn' = IF done
               THEN [conn EXCEPT ![c].pc = "AwaitingRequestLine"]
               ELSE [conn EXCEPT ![c].pc = "Closed", ![c].result = "Err:handshake"]
    /\ UNCHANGED <<sanVars, convVars, cacheVars, cacheObs, tlsVars, fsVars>>

\* A mutation of ReadEof: an immediate EOF is returned as an error.
ReadEofAsError(c) ==
    /\ server_pc = "listening"
    /\ conn[c].pc = "AwaitingRequestLine"
    /\ conn' = [conn EXCEPT ![c].bytes_read = Some(0),
                            ![c].pc = "Closed", ![c].result = "Err:io"]
    /\ UNCHANGED <<sanVars, convVars, cacheVars, cacheObs, tlsVars, fsVars>>

\* read_line returns Ok(0) (server.rs 70..74)
ReadEof(c) ==
    /\ server_pc = "listening"
    /\ conn[c].pc = "AwaitingRequestLine"
    /\ conn' = [conn EXCEPT ![c].bytes_read = Some(0),
                            ![c].pc = "Closed", ![c].result = "Ok"]
    /\ UNCHANGED <<sanVars, convVars, cacheVars, cacheObs, tlsVars, fsVars>>

\* read_line returns Err (server.rs 70)
ReadError(c) ==
    /\ server_pc = "listening"
    /\ conn[c].pc = "AwaitingRequestLine"
    /\ conn' = [conn EXCEPT ![c].pc = "Closed", ![c].result = "Err:io"]
    /\ UNCHANGED <<sanVars, convVars, cacheVars, cacheObs, tlsVars, fsVars>>

\* A mutation of HandleLine: a path that fails sanitize_path is dispatched
\* all the same, percent-decoded.
HandleLineUnchecked(cn, raw) ==
    LET url == UrlPath(Trim(raw))
        cn0 == [cn EXCEPT !.bytes_read = Some(Len(raw)), !.line = raw]
    IN  IF ~url.ok
        THEN [cn0 EXCEPT !.pc = "Closed", !.result = "Err:url"]
        ELSE LET safe_path == PercentDecode(url.val)
                 static == IsStaticRequest(safe_path)
                 file_path == IF static THEN static_file_path(safe_path)
                                        ELSE markdown_file_path(safe_path)
                 hit == IF static THEN get_binary(file_path) ELSE get_text(file_path)
                 meta == IF static THEN get_mime_type(safe_path) ELSE "text/gemini"
                 cn1 == [cn0 EXCEPT !.safe_path = Some(safe_path),
                                   !.static = static, !.file_path = file_path,
                                   !.cache_ops = @ + 1]
             IN  IF hit.some
                 THEN [cn1 EXCEPT !.pc = "Responding",
                                  !.status = SuccessLine(meta),
                                  !.body = Some(hit.val)]
                 ELSE [cn1 EXCEPT !.pc = "Dispatching"]

\* handle_connection from the line read to the first await of serve_markdown
\* or serve_static_file (server.rs 77..88, 101; pages.rs 9..18, 102..107):
\* trim, Url::parse, path, sanitize_path, the route, the file path and the
\* cache lookup.  `cn` is the task's locals, `raw` the line read.
HandleLine(cn, raw) ==
    LET url == UrlPath(Trim(raw))
        cn0 == [cn EXCEPT !.bytes_read = Some(Len(raw)), !.line = raw]
    IN  IF ~url.ok
        THEN [cn0 EXCEPT !.pc = "Closed", !.result = "Err:url"]
        ELSE LET san == sanitize_path(url.val)
             IN  IF ~san.ok
                 THEN [cn0 EXCEPT !.pc = "Closed", !.result = "Err:sanitize"]
                 ELSE LET safe_path == san.val
                          static == IsStaticRequest(safe_path)
                          file_path == IF static THEN static_file_path(safe_path)
                                                 ELSE markdown_file_path(safe_path)
                          hit == IF static THEN get_binary(file_path) ELSE get_text(file_path)
                          meta == IF static THEN get_mime_type(safe_path) ELSE "text/gemini"
                          cn1 == [cn0 EXCEPT !.safe_path = Some(safe_path),
                                            !.static = static, !.file_path = file_path,
                                            !.cache_ops = @ + 1]
                      IN  IF hit.some
                          THEN [cn1 EXCEPT !.pc = "Responding",
                                           !.status = SuccessLine(meta),
                                           !.body = Some(hit.val)]
                          ELSE [cn1 EXCEPT !.pc = "Dispatching"]

\* read_line returns a line (server.rs 70, 75..88, 101)
ReadRequest(c, raw) ==
    /\ server_pc = "listening"
    /\ conn[c].pc = "AwaitingRequestLine"
    /\ conn' = [conn EXCEPT ![c] = HandleLine(conn[c], raw)]
    /\ UNCHANGED <<sanVars, convVars, cacheVars, cacheObs, tlsVars, fsVars>>

\* A mutation of ReadFile: a failed read is remembered in the cache.
ReadFileNegative(c) ==
    /\ server_pc = "listening"
    /\ conn[c].pc = "Dispatching"
    /\ LET r == fs_read(conn[c].file_path)
       IN  IF r.ok
           THEN /\ conn' = [conn EXCEPT ![c].pc = "Populating",
                                        ![c].data = Some(r.val),
                                        ![c].reads = @ + 1]
                /\ UNCHANGED cacheVars
           ELSE /\ conn' = [conn EXCEPT ![c].pc = "Responding",
                                        ![c].status = NotFoundLine,
                                        ![c].reads = @ + 1]
                /\ IF conn[c].static
                   THEN set_binary(conn[c].file_path, <<>>)
                   ELSE set_text(conn[c].file_path, <<>>)
    /\ UNCHANGED <<sanVars, convVars, cacheObs, tlsVars, fsVars>>

\* fs::read_to_string(&file_path).await / fs::read(&file_path).await; a
\* failure is logged by the caller, which then answers 51 (pages.rs 20..21,
\* 108..109; server.rs 94..97, 106..109)
ReadFile(c) ==
    /\ server_pc = "listening"
    /\ conn[c].pc = "Dispatching"
    /\ LET r == fs_read(conn[c].file_path)
       IN  conn' = IF r.ok
                   THEN [conn EXCEPT ![c].pc = "Populating",
                                     ![c].data = Some(r.val),
                                     ![c].reads = @ + 1]
                   ELSE [conn EXCEPT ![c].pc = "Responding",
                                     ![c].status = NotFoundLine,
                                     ![c].reads = @ + 1]
    /\ UNCHANGED <<sanVars, convVars, cacheVars, cacheObs, tlsVars, fsVars>>

\* A mutation of Populate: the content is returned without being cached.
PopulateNoStore(c) ==
    /\ server_pc = "listening"
    /\ conn[c].pc = "Populating"
    /\ LET cn == conn[c]
           content == IF cn.static THEN cn.data.val ELSE Convert(cn.data.val)
           meta == IF cn.static THEN get_mime_type(cn.safe_path.val) ELSE "text/gemini"
       IN  /\ UNCHANGED cacheVars
           /\ conn' = [conn EXCEPT ![c].pc = "Responding",
                                   ![c].status = SuccessLine(meta),
                                   ![c].body = Some(content)]
    /\ UNCHANGED <<sanVars, convVars, cacheObs, tlsVars, fsVars>>

\* serve_markdown after the read: the conversion and cache.set_text
\* (pages.rs 24..96); serve_static_file after the read: get_mime_type and
\* cache.set_binary (pages.rs 110..112)
Populate(c) ==
    /\ server_pc = "listening"
    /\ conn[c].pc = "Populating"
    /\ LET cn == conn[c]
           content == IF cn.static THEN cn.data.val ELSE Convert(cn.data.val)
           meta == IF cn.static THEN get_mime_type(cn.safe_path.val) ELSE "text/gemini"
       IN  /\ IF cn.static
              THEN set_binary(cn.file_path, content)
              ELSE set_text(cn.file_path, content)
           /\ conn' = [conn EXCEPT ![c].pc = "Responding",
                                   ![c].status = SuccessLine(meta),
                                   ![c].body = Some(content),
                                   ![c].cache_ops = @ + 1]
    /\ UNCHANGED <<sanVars, convVars, cacheObs, tlsVars, fsVars>>

\* A mutation of WriteStatus: the handler does not move on after writing
\* the status line.
WriteStatusStay(c, written) ==
    /\ server_pc = "listening"
    /\ conn[c].pc = "Responding"
    /\ conn' = IF written
               THEN [conn EXCEPT ![c].out = Append(@, [part |-> "status",
                                                       bytes |-> conn[c].status])]
               ELSE [conn EXCEPT ![c].pc = "Closed", ![c].result = "Err:io"]
    /\ UNCHANGED <<sanVars, convVars, cacheVars, cacheObs, tlsVars, fsVars>>

\* writer.write_all(the status line).await? (server.rs 91, 96, 103, 108)
WriteStatus(c, written) ==
    /\ server_pc = "listening"
    /\ conn[c].pc = "Responding"
    /\ conn' = IF written
               THEN [conn EXCEPT ![c].out = Append(@, [part |-> "status",
                                                       bytes |-> conn[c].status]),
                                 ![c].pc = IF conn[c].body.some
                                           THEN "RespondingBody" ELSE "Flushing"]
               ELSE [conn EXCEPT ![c].pc = "Closed", ![c].result = "Err:io"]
    /\ UNCHANGED <<sanVars, convVars, cacheVars, cacheObs, tlsVars, fsVars>>

\* writer.write_all(the body).await? (server.rs 92, 104)
WriteBody(c, written) ==
    /\ server_pc = "listening"
    /\ conn[c].pc = "RespondingBody"
    /\ conn' = IF written
               THEN [conn EXCEPT ![c].out = Append(@, [part |-> "body",
                                                       bytes |-> conn[c].body.val]),
                                 ![c].pc = "Flushing"]
               ELSE [conn EXCEPT ![c].pc = "Closed", ![c].result = "Err:io"]
    /\ UNCHANGED <<sanVars, convVars, cacheVars, cacheObs, tlsVars, fsVars>>

\* A mutation of Flush: after the flush the handler reads another line.
FlushKeepAlive(c, flushed) ==
    /\ server_pc = "listening"
    /\ conn[c].pc = "Flushing"
    /\ conn' = IF flushed
               THEN [conn EXCEPT ![c].pc = "AwaitingRequestLine"]
               ELSE [conn EXCEPT ![c].pc = "Closed", ![c].result = "Err:io"]
    /\ UNCHANGED <<sanVars, convVars, cacheVars, cacheObs, tlsVars, fsVars>>

\* writer.flush().await?; Ok(()) (server.rs 112..113)
Flush(c, flushed) ==
    /\ server_pc = "listening"
    /\ conn[c].pc = "Flushing"
    /\ conn' = [conn EXCEPT ![c].pc = "Closed",
                            ![c].result = IF flushed THEN "Ok" ELSE "Err:io"]
    /\ UNCHANGED <<sanVars, convVars, cacheVars, cacheObs, tlsVars, fsVars>>

(***************************************************************************)
(* Request lines                                                           *)
(***************************************************************************)

gemini_host == <<"g", "e", "m", "i", "n", "i", ":", "/", "/", "h", "o", "s", "t">>
CRLF == <<"\r", "\n">>

\* gemini://host/
Line_root == gemini_host \o <<"/">> \o CRLF
\* gemini://host/../secret
Line_dotdot == gemini_host \o <<"/", ".", ".", "/", "s", "e", "c", "r", "e", "t">> \o CRLF
\* gemini://host/..%2fsecret
Line_escaped == gemini_host
                    \o <<"/", ".", ".", "%", "2", "f", "s", "e", "c", "r", "e", "t">> \o CRLF
\* hello
Line_malformed == <<"h", "e", "l", "l", "o">> \o CRLF
\* gemini://host/a.png
Line_image == gemini_host \o <<"/", "a", ".", "p", "n", "g">> \o CRLF

InitServer ==
    /\ san_pc = "ret" /\ san_in = <<>> /\ san_out = None /\ san_again = None
    /\ ConvIdle
    /\ Cache_new
    /\ cache_got = None /\ last_text = EmptyMap /\ last_binary = EmptyMap
    /\ server_pc = "loading" /\ acceptor = None
    /\ cert_disk \in {0, 1}
    /\ reload_pc = "sleep" /\ reload_log = "none" /\ tls_latest = None
    /\ conn = [c \in Conns |-> ConnInit]

\* The steps of the connections `cs`, their request lines drawn from `lines`
\* and the outcomes of their socket writes from `writes` (TRUE: written).
ConnNext(lines, cs, writes) ==
    \E c \in cs :
        \/ Accept(c)
        \/ StartHandshake(c)
        \/ \E done \in BOOLEAN : Handshake(c, done)
        \/ ReadEof(c)
        \/ ReadError(c)
        \/ \E raw \in lines : ReadRequest(c, raw)
        \/ ReadFile(c)
        \/ Populate(c)
        \/ \E written \in writes : WriteStatus(c, written)
        \/ \E written \in writes : WriteBody(c, written)
        \/ \E flushed \in writes : Flush(c, flushed)

(***************************************************************************)
(* Specification Spec: the server from startup, serving concurrent         *)
(* connections while files of the pages directory are created and          *)
(* rewritten, within the first reload interval (the reload task sleeps);   *)
(* the clients take what is written to them (no socket write fails).       *)
(***************************************************************************)

RequestLines == {Line_root, Line_image, Line_escaped, Line_malformed}

\* The files that are created or rewritten while the server runs.
ChangingFiles == {index_md, a_png}

\* The pages directory at startup: empty, or the two files with their first
\* content.
InitialFs ==
    { [f \in Files |-> None],
      [f \in Files |-> IF f = index_md THEN Some(DocA)
                       ELSE IF f = a_png THEN Some(ImgA) ELSE None] }

Init ==
    /\ InitServer
    /\ fs \in InitialFs

Next ==
    \/ LoadInitialTls
    \/ \E bound \in BOOLEAN : Bind(bound)
    \/ \E f \in ChangingFiles : \E content \in FileContents(f) : FsWrite(f, content)
    \/ ConnNext(RequestLines, Conns, {TRUE})

Spec == Init /\ [][Next]_vars

(***************************************************************************)
(* Specification SpecRoute: one connection from startup to its close, over *)
(* every request line, every set of files present and every outcome of     *)
(* its socket writes; no file changes.                                     *)
(***************************************************************************)

RouteLines == {Line_root, Line_dotdot, Line_image, Line_escaped, Line_malformed}

\* Each file absent or with its first content.
RouteFs ==
    { f \in [Files -> {None, Some(DocA), Some(ImgA)}] :
          \A x \in Files : f[x].some => f[x].val \in FileContents(x) }

InitRoute ==
    /\ InitServer
    /\ fs \in RouteFs

NextRoute ==
    \/ LoadInitialTls
    \/ \E bound \in BOOLEAN : Bind(bound)
    \/ ConnNext(RouteLines, {1}, BOOLEAN)

SpecRoute == InitRoute /\ [][NextRoute]_vars

(***************************************************************************)
(* Specification SpecConn: concurrent connections from startup to their    *)
(* close, over every outcome of the handshake, of the read and of each     *)
(* socket write; the pages directory does not change.                      *)
(***************************************************************************)

ConnLines == {Line_root, Line_image, Line_escaped, Line_malformed}

\* The pages directory: empty, the image alone, or the image and index.md.
ConnFs ==
    InitialFs \cup { [f \in Files |-> IF f = a_png THEN Some(ImgA) ELSE None] }

InitConn ==
    /\ InitServer
    /\ fs \in ConnFs

NextConn ==
    \/ LoadInitialTls
    \/ \E bound \in BOOLEAN : Bind(bound)
    \/ ConnNext(ConnLines, Conns, BOOLEAN)

SpecConn == InitConn /\ [][NextConn]_vars

(***************************************************************************)
(* Specification SpecTls: the server from startup over any number of       *)
(* reload intervals, while the certificate files change; the pages         *)
(* directory is fixed and no socket write fails.                           *)
(***************************************************************************)

\* The certificate and key pairs the files go through.
MaxCertVersion == 2

TlsRequestLines == {Line_root, Line_malformed}

InitTls ==
    /\ InitServer
    /\ fs = [f \in Files |-> IF f = index_md THEN Some(DocA) ELSE None]

NextTls ==
    \/ LoadInitialTls
    \/ \E bound \in BOOLEAN : Bind(bound)
    \/ ReloadWake
    \/ ReloadLoad
    \/ \E v \in 0..MaxCertVersion : CertRotate(v)
    \/ ConnNext(TlsRequestLines, Conns, {TRUE})

SpecTls == InitTls /\ [][NextTls]_vars

(***************************************************************************)
(* Specification SpecSan: sanitize_path applied to bounded inputs, and     *)
(* then to its own output.                                                 *)
(***************************************************************************)

\* The most pieces an input path is made of.
MaxPathTokens == 4

\* The pieces inputs are made of: separators, dots, escapes of '.', '/',
\* '%', a stray '%', and characters that complete an escape after one
\* decoding ("%25" "4" "1" is "%2541").
PathTokens ==
    { <<"/">>, <<".">>, <<"%">>, <<"a">>, <<"4">>, <<"1">>,
      <<"%", "2", "e">>, <<"%", "2", "E">>, <<"%", "2", "f">>, <<"%", "2", "5">> }

RECURSIVE Flatten(_)
Flatten(ss) == IF ss = <<>> THEN <<>> ELSE ss[1] \o Flatten(Tail(ss))

PathInputs ==
    { Flatten(ts) : ts \in UNION { [1..n -> PathTokens] : n \in 0..MaxPathTokens } }

InitOther_San ==
    /\ ConvIdle
    /\ Cache_new
    /\ cache_got = None /\ last_text = EmptyMap /\ last_binary = EmptyMap
    /\ server_pc = "loading" /\ acceptor = None /\ cert_disk = 1
    /\ reload_pc = "sleep" /\ reload_log = "none" /\ tls_latest = None
    /\ fs = EmptyMap
    /\ conn = EmptyMap

InitSan ==
    /\ san_pc = "call"
    /\ san_in \in PathInputs
    /\ san_out = None
    /\ san_again = None
    /\ InitOther_San

\* the call sanitize_path(san_in)
SanitizeCall ==
    /\ san_pc = "call"
    /\ san_out' = sanitize_path(san_in)
    /\ san_pc' = "ret"
    /\ UNCHANGED <<san_in, san_again>>
    /\ UNCHANGED <<convVars, cacheVars, cacheObs, tlsVars, fsVars, conn>>

\* the call sanitize_path(q), q the output of a successful first call
SanitizeAgain ==
    /\ san_pc = "ret"
    /\ san_out.ok
    /\ san_again' = sanitize_path(san_out.val)
    /\ san_pc' = "again"
    /\ UNCHANGED <<san_in, san_out>>
    /\ UNCHANGED <<convVars, cacheVars, cacheObs, tlsVars, fsVars, conn>>

NextSan == SanitizeCall \/ SanitizeAgain

SpecSan == InitSan /\ [][NextSan]_vars

(***************************************************************************)
(* Specification SpecPath: one connection from startup to its close, its   *)
(* request path drawn from bounded paths with and without the known        *)
(* extensions; the pages directory holds index.md and a.png.               *)
(***************************************************************************)

\* The most pieces a request path is made of.
MaxPathPieces == 3

\* The pieces request paths are made of.
PathPieces ==
    { <<"/">>, <<"a">>, <<"i", "n", "d", "e", "x">>, <<".", "m", "d">>,
      <<".", "j", "p", "g">>, <<".", "j", "p", "e", "g">>,
      <<".", "p", "n", "g">>, <<".", "g", "i", "f">> }

\* gemini://host<pieces>
PathLines ==
    { gemini_host \o Flatten(ts) \o CRLF :
          ts \in UNION { [1..n -> PathPieces] : n \in 1..MaxPathPieces } }

InitPath ==
    /\ InitServer
    /\ fs = [f \in Files |-> IF f = index_md THEN Some(DocA)
                              ELSE IF f = a_png THEN Some(ImgA) ELSE None]

NextPath ==
    \/ LoadInitialTls
    \/ \E bound \in BOOLEAN : Bind(bound)
    \/ ConnNext(PathLines, {1}, {TRUE})

SpecPath == InitPath /\ [][NextPath]_vars

(***************************************************************************)
(* Specification SpecRoot: as SpecPath, with the request lines whose URL   *)
(* has no path or a path that does not start with "/".                     *)
(***************************************************************************)

\* gemini://host
Line_nopath == gemini_host \o CRLF
\* gemini:secret
Line_opaque == <<"g", "e", "m", "i", "n", "i", ":", "s", "e", "c", "r", "e", "t">> \o CRLF

RootLines == PathLines \cup {Line_nopath, Line_opaque, Line_dotdot, Line_escaped}

NextRoot ==
    \/ LoadInitialTls
    \/ \E bound \in BOOLEAN : Bind(bound)
    \/ ConnNext(RootLines, {1}, {TRUE})

SpecRoot == InitPath /\ [][NextRoot]_vars

(***************************************************************************)
(* Specification SpecMime: concurrent connections asking for images of     *)
(* every known extension and for pages, all of them present, so that       *)
(* each is answered from the file and then from the cache.                 *)
(***************************************************************************)

\* The request paths: /a.jpg, /a.jpeg, /a.png, /a.gif, / and /a.JPG
MimePaths ==
    { <<"/", "a", ".", "j", "p", "g">>, <<"/", "a", ".", "j", "p", "e", "g">>,
      <<"/", "a", ".", "p", "n", "g">>, <<"/", "a", ".", "g", "i", "f">>,
      <<"/">>, <<"/", "a", ".", "J", "P", "G">> }

MimeLines == { gemini_host \o p \o CRLF : p \in MimePaths }

\* The pages directory: a file for each image path, and index.md.
MimeFs ==
    [f \in { pages_dir \o p : p \in MimePaths \ {<<"/">>} } \cup {index_md} |->
        IF f = index_md THEN Some(DocA) ELSE Some(ImgA)]

InitMime ==
    /\ InitServer
    /\ fs = MimeFs

NextMime ==
    \/ LoadInitialTls
    \/ \E bound \in BOOLEAN : Bind(bound)
    \/ ConnNext(MimeLines, Conns, {TRUE})

SpecMime == InitMime /\ [][NextMime]_vars

(***************************************************************************)
(* Specification SpecConvert: the conversion loop of serve_markdown over   *)
(* the events the parser yields for bounded documents: headings and        *)
(* paragraphs holding text, inline code, breaks, links and images.         *)
(***************************************************************************)

\* The most events a document is made of.
MaxEvents == 6

HeadingLevels == {1, 2, 6}
\* "Hello World", "Welcome!", " "
ConvTexts == { <<"H", "e", "l", "l", "o", " ", "W", "o", "r", "l", "d">>,
               <<"W", "e", "l", "c", "o", "m", "e", "!">>,
               <<" ">> }
\* "https://x", "y"
ConvUrls == { <<"h", "t", "t", "p", "s", ":", "/", "/", "x">>, <<"y">> }

Tag(tag, url) == [tag |-> tag, url |-> url, texts |-> <<>>]

\* Parser::new_ext(&content, Options::all()): the events that may come next
\* when the tags `open` are open.  Blocks are headings, paragraphs and
\* rules; inline content is text, code, breaks, links and images; a link
\* holds no link; an image holds its alternative text.
ParserEvents(open) ==
    LET top == IF open = <<>> THEN "Document" ELSE open[Len(open)].tag
        texts == { [ev |-> "Text", text |-> t] : t \in ConvTexts }
        images == { [ev |-> "StartImage", url |-> u, title |-> <<"t">>] : u \in {<<"y">>} }
        inline == texts \cup images
                    \cup { [ev |-> "Code", code |-> <<"c">>], [ev |-> "SoftBreak"] }
    IN  CASE top = "Document" ->
                 { [ev |-> "StartHeading", level |-> n] : n \in HeadingLevels }
                     \cup { [ev |-> "StartParagraph"], [ev |-> "Rule"] }
          [] top = "Heading" ->
                 inline \cup { [ev |-> "StartLink", url |-> u] : u \in ConvUrls }
                        \cup { [ev |-> "EndHeading"] }
          [] top = "Paragraph" ->
                 inline \cup { [ev |-> "StartLink", url |-> u] : u \in ConvUrls }
                        \cup { [ev |-> "EndParagraph"] }
          [] top = "Link" -> inline \cup { [ev |-> "EndLink"] }
          [] top = "Image" -> texts \cup { [ev |-> "EndImage"] }

\* The open tags after the event e; a link records the text events yielded
\* since its start.
OpenAfter(open, e) ==
    CASE e.ev = "StartHeading" -> Append(open, Tag("Heading", <<>>))
      [] e.ev = "StartParagraph" -> Append(open, Tag("Paragraph", <<>>))
      [] e.ev = "StartLink" -> Append(open, Tag("Link", e.url))
      [] e.ev = "StartImage" -> Append(open, Tag("Image", e.url))
      [] e.ev \in {"EndHeading", "EndParagraph", "EndLink", "EndImage"} ->
             SubSeq(open, 1, Len(open) - 1)
      [] e.ev = "Text" ->
             [i \in DOMAIN open |->
                 IF open[i].tag = "Link"
                 THEN [open[i] EXCEPT !.texts = @ \o e.text] ELSE open[i]]
      [] OTHER -> open

InitConvert ==
    /\ ConvIdle
    /\ san_pc = "ret" /\ san_in = <<>> /\ san_out = None /\ san_again = None
    /\ Cache_new
    /\ cache_got = None /\ last_text = EmptyMap /\ last_binary = EmptyMap
    /\ server_pc = "loading" /\ acceptor = None /\ cert_disk = 1
    /\ reload_pc = "sleep" /\ reload_log = "none" /\ tls_latest = None
    /\ fs = EmptyMap
    /\ conn = EmptyMap

\* One turn of `for event in parser` (pages.rs 33..93)
ConvertStep(e) ==
    /\ conv_n < MaxEvents
    /\ e \in ParserEvents(conv_open)
    /\ conv_st' = ConvertEvent(conv_st, e)
    /\ conv_open' = OpenAfter(conv_open, e)
    /\ conv_ev' = Some(e)
    /\ conv_n' = conv_n + 1
    /\ UNCHANGED <<sanVars, cacheVars, cacheObs, tlsVars, fsVars, conn>>

NextConvert == \E e \in ParserEvents(conv_open) : ConvertStep(e)

SpecConvert == InitConvert /\ [][NextConvert]_vars

(***************************************************************************)
(* Specification SpecCache: the Cache on its own, under any sequence of    *)
(* set and get calls.                                                      *)
(***************************************************************************)

CacheKeys == {"key1", "key2"}
CacheTexts == {"value1", "value2"}
CacheBytes == {<<1, 2, 3, 4>>, <<5>>}

InitCache ==
    /\ Cache_new
    /\ cache_got = None /\ last_text = EmptyMap /\ last_binary = EmptyMap
    /\ san_pc = "ret" /\ san_in = <<>> /\ san_out = None /\ san_again = None
    /\ ConvIdle
    /\ server_pc = "loading" /\ acceptor = None /\ cert_disk = 1
    /\ reload_pc = "sleep" /\ reload_log = "none" /\ tls_latest = None
    /\ fs = EmptyMap
    /\ conn = EmptyMap

CacheSetText(k, v) ==
    /\ set_text(k, v)
    /\ last_text' = Put(last_text, k, v)
    /\ UNCHANGED <<cache_got, last_binary>>
    /\ UNCHANGED <<sanVars, convVars, tlsVars, fsVars, conn>>

CacheSetBinary(k, v) ==
    /\ set_binary(k, v)
    /\ last_binary' = Put(last_binary, k, v)
    /\ UNCHANGED <<cache_got, last_text>>
    /\ UNCHANGED <<sanVars, convVars, tlsVars, fsVars, conn>>

CacheGetText(k) ==
    /\ cache_got' = get_text(k)
    /\ UNCHANGED <<cacheVars, last_text, last_binary>>
    /\ UNCHANGED <<sanVars, convVars, tlsVars, fsVars, conn>>

CacheGetBinary(k) ==
    /\ cache_got' = get_binary(k)
    /\ UNCHANGED <<cacheVars, last_text, last_binary>>
    /\ UNCHANGED <<sanVars, convVars, tlsVars, fsVars, conn>>

NextCache ==
    \/ \E k \in CacheKeys, v \in CacheTexts : CacheSetText(k, v)
    \/ \E k \in CacheKeys, v \in CacheBytes : CacheSetBinary(k, v)
    \/ \E k \in CacheKeys : CacheGetText(k)
    \/ \E k \in CacheKeys : CacheGetBinary(k)

SpecCache == InitCache /\ [][NextCache]_vars

(***************************************************************************)
(* Properties                                                              *)
(***************************************************************************)

\* The status lines among the parts a connection has written.
StatusParts(out) == { i \in 1..Len(out) : out[i].part = "status" }

\* s has a ".." between separators (or the ends of s), by position.
HasDotDotComponent(s) ==
    \E i \in 1..(Len(s) - 1) :
        /\ s[i] = "." /\ s[i + 1] = "."
        /\ (i = 1 \/ s[i - 1] = "/")
        /\ (i + 1 = Len(s) \/ s[i + 2] = "/")

\* s has a percent-escape: '%' and two hex digits.
HasEscape(s) ==
    \E i \in 1..(Len(s) - 2) : s[i] = "%" /\ IsHex(s[i + 1]) /\ IsHex(s[i + 2])

\* The request line of a connection fails URL parsing, or its path fails
\* sanitization.
RejectedLine(line) ==
    LET url == UrlPath(Trim(line))
    IN  ~url.ok \/ HasDotDotComponent(PercentDecode(url.val))

\* C1 (as claimed): a connection that completed the handshake, read a
\* non-empty request line and met no I/O error has, once closed, written
\* exactly one status line; when the line fails URL parsing or its path
\* fails sanitize_path, what it wrote is "51 Not Found\r\n" and nothing else.
C1_AlwaysOneStatusLine ==
    \A c \in Conns :
        (conn[c].pc = "Closed" /\ conn[c].line # <<>> /\ conn[c].result # "Err:io")
            => /\ Cardinality(StatusParts(conn[c].out)) = 1
               /\ RejectedLine(conn[c].line)
                      => conn[c].out = <<[part |-> "status", bytes |-> NotFoundLine]>>

\* C2 (as claimed): a connection whose request line is
\* gemini://host/../secret writes no body, and once its handler has finished
\* what it wrote is the status line "51 Not Found\r\n", whatever files exist.
C2_DotDotIsNotFound ==
    \A c \in Conns :
        conn[c].line = Line_dotdot
            => /\ \A i \in 1..Len(conn[c].out) : conn[c].out[i].part # "body"
               /\ (conn[c].pc = "Closed" /\ conn[c].result = "Ok")
                      => conn[c].out = <<[part |-> "status", bytes |-> NotFoundLine]>>

\* C3 (as claimed): a connection is accepted with the most recently
\* successfully loaded TLS material, and keeps the material it was accepted
\* with for as long as it lives.
C3_AcceptUsesLatestMaterial ==
    [][\A c \in Conns :
          /\ (conn[c].pc = "Idle" /\ conn'[c].pc # "Idle")
                 => conn'[c].material = tls_latest
          /\ conn[c].pc # "Idle" => conn'[c].material = conn[c].material]_vars

\* C4: a reload that fails leaves the acceptor's material, the listener and
\* every connection as they were and puts the reload task back to sleep;
\* the task never leaves its loop; and every connection accepted gets the
\* acceptor's material, which no step changes once it is set.
C4_FailedReloadIsHarmless ==
    [][/\ (reload_pc = "load" /\ reload_pc' # "load" /\ cert_disk = 0)
              => /\ reload_pc' = "sleep"
                 /\ reload_log' = "failed"
                 /\ acceptor' = acceptor
                 /\ server_pc' = server_pc
                 /\ conn' = conn
       /\ reload_pc' \in {"sleep", "load"}
       /\ acceptor.some => acceptor' = acceptor
       /\ \A c \in Conns :
              (conn[c].pc = "Idle" /\ conn'[c].pc # "Idle")
                  => (acceptor.some /\ conn'[c].material = acceptor)]_vars

\* C4 witness: a reload has failed on unusable files, the task sleeps again,
\* the server listens and a connection is handshaking with the material
\* loaded at startup.
C4_Witness ==
    /\ reload_log = "failed" /\ reload_pc = "sleep" /\ cert_disk = 0
    /\ server_pc = "listening"
    /\ \E c \in Conns : conn[c].pc = "Handshaking" /\ conn[c].material = acceptor

\* C5 (as claimed): a cache entry, once it exists, keeps its value.
C5_CacheEntryNeverChanges ==
    [][/\ \A k \in DOMAIN text_cache :
              k \in DOMAIN text_cache' /\ text_cache'[k] = text_cache[k]
       /\ \A k \in DOMAIN binary_cache :
              k \in DOMAIN binary_cache' /\ binary_cache'[k] = binary_cache[k]]_vars

\* C6: a connection accepted after a request served from the same file had
\* finished reads no file: it is answered from the cache with status 20.
C6_SecondRequestReadsNothing ==
    \A c \in Conns :
        (conn[c].safe_path.some /\ conn[c].file_path \in conn[c].prior)
            => /\ conn[c].reads = 0
               /\ conn[c].pc \notin {"Dispatching", "Populating"}
               /\ conn[c].body.some
               /\ conn[c].status # NotFoundLine

\* C6 witness: such a connection has finished, with status line and body.
C6_Witness ==
    \E c \in Conns :
        /\ conn[c].safe_path.some /\ conn[c].file_path \in conn[c].prior
        /\ conn[c].pc = "Closed" /\ conn[c].result = "Ok"
        /\ conn[c].reads = 0 /\ Len(conn[c].out) = 2

\* C7: get_text(k) is the value of the most recent set_text(k, _), None if
\* there was none; likewise get_binary and set_binary; so a set in one
\* namespace never shows in the other.
C7_GetReturnsLastSet ==
    \A k \in CacheKeys :
        /\ get_text(k) = IF k \in DOMAIN last_text THEN Some(last_text[k]) ELSE None
        /\ get_binary(k) = IF k \in DOMAIN last_binary THEN Some(last_binary[k]) ELSE None

\* C7 witness: key1 was set in both namespaces, key2 in the binary one only,
\* and a get has returned the text of key1.
C7_Witness ==
    /\ get_text("key1") = Some("value2")
    /\ get_binary("key1") = Some(<<1, 2, 3, 4>>)
    /\ get_text("key2") = None
    /\ get_binary("key2") = Some(<<5>>)
    /\ cache_got = Some("value2")

\* C8: sanitize_path fails on every input with a ".." component, as given
\* or after percent-decoding, and on every other input returns Ok with
\* exactly the percent-decoded string.
C8_SanitizeRejectsExactlyDotDot ==
    san_pc \in {"ret", "again"}
        => LET decoded == PercentDecode(san_in)
           IN  IF HasDotDotComponent(san_in) \/ HasDotDotComponent(decoded)
               THEN ~san_out.ok
               ELSE san_out = Ok(decoded)

\* C8 witness: an input whose ".." appears only after decoding was rejected.
C8_Witness ==
    /\ san_pc = "ret"
    /\ ~HasDotDotComponent(san_in)
    /\ HasDotDotComponent(PercentDecode(san_in))
    /\ ~san_out.ok

\* C9 (as claimed): when sanitize_path(p) = Ok(q) and sanitize_path(q) =
\* Ok(r), r = q.
C9_Idempotent ==
    (san_pc = "again" /\ san_again.ok) => san_again.val = san_out.val

\* C9 (amended): when sanitize_path(p) = Ok(q), sanitize_path(q) = Ok(r) and
\* q holds no percent-escape, r = q.
C9_IdempotentWithoutEscape ==
    (san_pc = "again" /\ san_again.ok /\ ~HasEscape(san_out.val))
        => san_again.val = san_out.val

\* C9 witness: the first call decoded something, its output holds a '%' but
\* no escape, and the second call returned it unchanged.
C9_Witness ==
    /\ san_pc = "again" /\ san_again.ok
    /\ san_out.val # san_in
    /\ \E i \in 1..Len(san_out.val) : san_out.val[i] = "%"
    /\ ~HasEscape(san_out.val)
    /\ san_again.val = san_out.val

\* C10: a connection that has read a file, used the cache or is about to
\* read has a request line whose path passed sanitization, and holds the
\* sanitized path; a connection whose line was rejected is closed and has
\* read no file and made no cache call.
C10_SanitizedBeforeAnyAccess ==
    \A c \in Conns :
        /\ (\/ conn[c].reads > 0
            \/ conn[c].cache_ops > 0
            \/ conn[c].pc \in {"Dispatching", "Populating"})
               => /\ ~RejectedLine(conn[c].line)
                  /\ conn[c].safe_path = Some(PercentDecode(UrlPath(Trim(conn[c].line)).val))
        /\ (conn[c].line # <<>> /\ RejectedLine(conn[c].line))
               => /\ conn[c].pc = "Closed"
                  /\ conn[c].reads = 0
                  /\ conn[c].cache_ops = 0
                  /\ conn[c].safe_path = None

\* C10 witness: one connection was rejected by sanitize_path and is closed
\* with nothing read, another has read a file.
C10_Witness ==
    \E c, d \in Conns :
        /\ conn[c].line = Line_escaped /\ conn[c].pc = "Closed"
        /\ conn[c].reads = 0 /\ conn[c].cache_ops = 0
        /\ conn[d].reads > 0 /\ conn[d].safe_path.some

\* The request of a connection was refused: its line fails URL parsing, its
\* path fails sanitization, or the file it resolves to could not be read.
Refused(cn) ==
    /\ cn.line # <<>>
    /\ \/ RejectedLine(cn.line)
       \/ (cn.reads > 0 /\ cn.data = None)

\* C11 (as claimed): any two connections whose requests were refused
\* (malformed line, traversal path, missing content) and that met no I/O
\* error have received the same bytes: the status line "51 Not Found\r\n"
\* and no body.
C11_RefusalsIndistinguishable ==
    \A c, d \in Conns :
        (/\ conn[c].pc = "Closed" /\ conn[c].result # "Err:io" /\ Refused(conn[c])
         /\ conn[d].pc = "Closed" /\ conn[d].result # "Err:io" /\ Refused(conn[d]))
            => /\ conn[c].out = conn[d].out
               /\ conn[c].out = <<[part |-> "status", bytes |-> NotFoundLine]>>

\* What a connection whose pipeline call returned is to write, in order.
FullResponse(cn) ==
    IF cn.body.some
    THEN <<[part |-> "status", bytes |-> cn.status], [part |-> "body", bytes |-> cn.body.val]>>
    ELSE <<[part |-> "status", bytes |-> cn.status]>>

\* The content of the file a connection resolved to, as the pipeline returns
\* it: the bytes of a binary asset, the conversion of a Markdown file.
PipelineContent(cn) ==
    IF cn.static THEN fs[cn.file_path].val ELSE Convert(fs[cn.file_path].val)

\* C12: once the pipeline has returned, if the file exists the status line is
\* "20 <meta>\r\n" (text/gemini, or the MIME type of a binary asset) and the
\* body is the pipeline's content (a binary asset's bytes as in the file);
\* if it does not, the status line is "51 Not Found\r\n" and there is no
\* body.  What a connection has written is always a prefix of status line
\* then body (so never two status lines, never a body first, never a body
\* after 51), and all of it once the handler has returned Ok.
C12_StatusThenBody ==
    \A c \in Conns :
        LET cn == conn[c]
        IN  /\ (cn.safe_path.some /\ cn.pc \notin {"Dispatching", "Populating"})
                   => /\ IF cn.file_path \in DOMAIN fs /\ fs[cn.file_path].some
                         THEN /\ cn.status = SuccessLine(IF cn.static
                                                         THEN get_mime_type(cn.safe_path.val)
                                                         ELSE "text/gemini")
                              /\ cn.body = Some(PipelineContent(cn))
                         ELSE /\ cn.status = NotFoundLine
                              /\ cn.body = None
                      /\ Len(cn.out) <= Len(FullResponse(cn))
                      /\ \A i \in 1..Len(cn.out) : cn.out[i] = FullResponse(cn)[i]
                      /\ (cn.pc = "Closed" /\ cn.result = "Ok") => cn.out = FullResponse(cn)
            /\ (~cn.safe_path.some \/ cn.pc \in {"Dispatching", "Populating"})
                   => cn.out = <<>>

\* C12 witness: one connection has been answered "20 image/png\r\n" and the
\* bytes of the file, another "51 Not Found\r\n" alone; both handlers
\* returned Ok.
C12_Witness ==
    \E c, d \in Conns :
        /\ conn[c].pc = "Closed" /\ conn[c].result = "Ok"
        /\ conn[c].out = <<[part |-> "status", bytes |-> "20 image/png\r\n"],
                           [part |-> "body", bytes |-> ImgA]>>
        /\ conn[d].pc = "Closed" /\ conn[d].result = "Ok"
        /\ conn[d].out = <<[part |-> "status", bytes |-> NotFoundLine]>>

\* A connection has written nothing, read no file and made no cache call.
Silent(cn) == cn.out = <<>> /\ cn.reads = 0 /\ cn.cache_ops = 0

\* C13: the step in which a handshake fails closes the connection with an
\* error, the step in which read_line returns 0 closes it with Ok; in both
\* the connection has written nothing, read no file and made no cache call,
\* and the cache is as it was; a closed connection never changes again.
C13_SilentClose ==
    [][\A c \in Conns :
          /\ (conn[c].pc = "Handshaking" /\ conn'[c].pc = "Closed")
                 => /\ conn'[c].result = "Err:handshake"
                    /\ Silent(conn'[c])
                    /\ UNCHANGED cacheVars
          /\ (conn[c].bytes_read = None /\ conn'[c].bytes_read = Some(0))
                 => /\ conn'[c].pc = "Closed"
                    /\ conn'[c].result = "Ok"
                    /\ Silent(conn'[c])
                    /\ UNCHANGED cacheVars
          /\ conn[c].pc = "Closed" => conn'[c] = conn[c]]_vars

\* C13 witness: one connection was closed by a failed handshake, another by
\* an immediate EOF.
C13_Witness ==
    \E c, d \in Conns :
        /\ conn[c].pc = "Closed" /\ conn[c].result = "Err:handshake" /\ Silent(conn[c])
        /\ conn[d].pc = "Closed" /\ conn[d].result = "Ok"
        /\ conn[d].bytes_read = Some(0) /\ Silent(conn[d])

\* The state of the connection state machine a task position belongs to:
\* Accepted 1, Handshaking 2, AwaitingRequestLine 3, Dispatching 4 (the
\* pipeline call), Responding 5 (the writes and the flush), Closed 6.
Phase(pc) ==
    CASE pc = "Idle" -> 0
      [] pc = "Accepted" -> 1
      [] pc = "Handshaking" -> 2
      [] pc = "AwaitingRequestLine" -> 3
      [] pc \in {"Dispatching", "Populating"} -> 4
      [] pc \in {"Responding", "RespondingBody", "Flushing"} -> 5
      [] pc = "Closed" -> 6

\* C14: a connection never moves to an earlier state; it moves to the next
\* state or to Closed (a cache hit answers the pipeline call within the step
\* that dispatches, which leads from AwaitingRequestLine to Responding);
\* read_line returns once: its result and the line never change afterwards,
\* and only a connection awaiting its request line reads; a connection that
\* responds has read exactly one line.
C14_StatesInOrder ==
    [][\A c \in Conns :
          LET a == Phase(conn[c].pc)
              b == Phase(conn'[c].pc)
          IN  /\ b >= a
              /\ b > a => \/ b = a + 1
                          \/ b = 6
                          \/ (a = 3 /\ b = 5 /\ conn'[c].cache_ops = 1 /\ conn'[c].body.some)
              /\ conn[c].bytes_read.some => conn'[c].bytes_read = conn[c].bytes_read
              /\ conn[c].line # <<>> => conn'[c].line = conn[c].line
              /\ conn'[c].bytes_read # conn[c].bytes_read => a = 3
              /\ b \in {4, 5} => (conn'[c].bytes_read.some /\ conn'[c].line # <<>>)
              /\ Len(conn'[c].out) >= Len(conn[c].out)
              /\ Len(conn'[c].out) > Len(conn[c].out) => a = 5]_vars

\* C14 witness: a connection has gone through every state: it read a line,
\* read a file, wrote status line and body, flushed and is closed.
C14_Witness ==
    \E c \in Conns :
        /\ conn[c].pc = "Closed" /\ conn[c].result = "Ok"
        /\ conn[c].bytes_read.some /\ conn[c].bytes_read.val > 0
        /\ conn[c].reads = 1 /\ Len(conn[c].out) = 2

\* The steps of connection d.
StepOf(d) == ConnNext(ConnLines, {d}, BOOLEAN)

\* C15: a step of one connection, its failure included, leaves every other
\* connection, the listener and the acceptor as they were, and a failing
\* step leaves the cache as it was; while the server listens, the next
\* connection can be accepted whatever the accepted ones are doing, and
\* every connection that is not closed can take its next step.
C15_ErrorsAreIsolated ==
    /\ [][\A c \in Conns :
             conn'[c] # conn[c]
                 => /\ \A d \in Conns \ {c} : conn'[d] = conn[d]
                    /\ UNCHANGED tlsVars
                    /\ (conn'[c].pc = "Closed" /\ conn'[c].result \notin {"Ok", "running"})
                           => UNCHANGED cacheVars]_vars
    /\ [](server_pc = "listening"
             => \A c \in Conns :
                    /\ (conn[c].pc = "Idle" /\ \A d \in Conns : d < c => conn[d].pc # "Idle")
                           => ENABLED Accept(c)
                    /\ conn[c].pc \notin {"Idle", "Closed"} => ENABLED StepOf(c))

\* C15 witness: one connection was closed by a failed write while another,
\* accepted before it ended, is about to write its body.
C15_Witness ==
    \E c, d \in Conns :
        /\ conn[c].pc = "Closed" /\ conn[c].result = "Err:io" /\ conn[c].safe_path.some
        /\ conn[d].pc = "RespondingBody"
        /\ server_pc = "listening"

\* The sanitized path p is a binary request: it ends in a known extension.
IsBinaryPath(p) ==
    \E ext \in { <<".", "j", "p", "g">>, <<".", "j", "p", "e", "g">>,
                 <<".", "p", "n", "g">>, <<".", "g", "i", "f">> } :
        /\ Len(p) >= Len(ext)
        /\ SubSeq(p, Len(p) - Len(ext) + 1, Len(p)) = ext

\* The file the sanitized path p resolves to.
ResolvedFile(p) ==
    IF IsBinaryPath(p) THEN pages_dir \o p
    ELSE IF p = <<"/">> THEN pages_dir \o <<"/", "i", "n", "d", "e", "x", ".", "m", "d">>
    ELSE pages_dir \o p \o <<".", "m", "d">>

C17_MdPathServesExistingFile ==
    \A c \in Conns :
        (/\ conn[c].safe_path.some
         /\ conn[c].pc \notin {"Dispatching", "Populating"}
         /\ EndsWith(conn[c].safe_path.val, <<".", "m", "d">>)
         /\ (pages_dir \o conn[c].safe_path.val) \in DOMAIN fs
         /\ fs[pages_dir \o conn[c].safe_path.val].some)
            => conn[c].body = Some(Convert(fs[pages_dir \o conn[c].safe_path.val].val))

\* C19: the step that ends the initial load while the certificate files are
\* unusable takes run_server to its failed end with no acceptor built, and
\* run_server stays there; run_server binds and listens only with an
\* acceptor; and a connection is accepted (and so a handshake attempted)
\* only by a listening server, with the material loaded at startup.
C19_NoServiceWithoutTls ==
    /\ [][/\ (server_pc = "loading" /\ server_pc' # "loading" /\ ~load_tls_config.ok)
                 => (server_pc' = "failed" /\ acceptor' = None)
          /\ server_pc = "failed" => server_pc' = "failed"]_vars
    /\ [](server_pc \in {"binding", "listening"} => acceptor.some)
    /\ [](\A c \in Conns :
              conn[c].pc # "Idle"
                  => /\ server_pc = "listening"
                     /\ acceptor.some
                     /\ conn[c].material = acceptor)

\* C19 witness: the initial load has failed on unusable files: run_server is
\* at its failed end, no acceptor exists and no connection was accepted.
C19_Witness ==
    /\ server_pc = "failed" /\ acceptor = None /\ tls_latest = None
    /\ cert_disk = 0
    /\ \A c \in Conns : conn[c].pc = "Idle"

\* The link that is open, if any, with its target and the text events
\* yielded since its start.
OpenLinks(open) == { i \in DOMAIN open : open[i].tag = "Link" }

\* s holds nothing but whitespace (or nothing).
AllWhitespace(s) == \A i \in 1..Len(s) : s[i] \in {" ", "\t", "\n", "\r"}

GeminiLink(url, text) ==
    <<"\n", "=", ">", " ">> \o url \o <<" ">> \o text \o <<"\n">>

\* C18: a Text event between a link start and its link end is appended to
\* the link text buffer and leaves the output as it was; a Text event
\* outside any link is appended to the output; a link end appends to the
\* output the one line "\n=> <url> <text>\n", <url> the target of its link
\* start and <text> the text events yielded since then, or <url> when they
\* hold nothing but whitespace.
C18_LinkLine ==
    [][conv_n' = conv_n + 1
          => LET e == conv_ev'.val
                 links == OpenLinks(conv_open)
             IN  /\ e.ev = "Text"
                        => IF links # {}
                           THEN /\ conv_st'.output = conv_st.output
                                /\ conv_st'.link_text = conv_st.link_text \o e.text
                                /\ \A i \in links : conv_st'.link_text = conv_open'[i].texts
                           ELSE conv_st'.output = conv_st.output \o e.text
                 /\ e.ev = "EndLink"
                        => LET l == conv_open[Len(conv_open)]
                           IN  conv_st'.output =
                                   conv_st.output
                                       \o GeminiLink(l.url, IF AllWhitespace(l.texts)
                                                            THEN l.url ELSE l.texts)]_vars

\* C18 witness: a second link of a paragraph, with a target of its own and
\* whitespace as its only text, has ended with the line "=> y y".
C18_Witness ==
    /\ conv_ev = Some([ev |-> "EndLink"])
    /\ conv_n = 6
    /\ conv_st.link_text = <<" ">>
    /\ conv_st.output = <<"\n">> \o GeminiLink(<<"h", "t", "t", "p", "s", ":", "/", "/", "x">>,
                                               <<"h", "t", "t", "p", "s", ":", "/", "/", "x">>)
                                 \o GeminiLink(<<"y">>, <<"y">>)

\* C20: a heading start of level n appends "\n", n times "#" and " " to the
\* output; a heading end, a paragraph start and a paragraph end each append
\* "\n"; none of them touches the link variables.
C20_HeadingsAndParagraphs ==
    [][conv_n' = conv_n + 1
          => LET e == conv_ev'.val
             IN  /\ e.ev = "StartHeading"
                        => conv_st' = [conv_st EXCEPT
                                          !.output = @ \o <<"\n">>
                                                       \o [i \in 1..e.level |-> "#"]
                                                       \o <<" ">>]
                 /\ e.ev \in {"EndHeading", "StartParagraph", "EndParagraph"}
                        => conv_st' = [conv_st EXCEPT !.output = @ \o <<"\n">>]]_vars

\* C20 witness: a level-1 heading "Hello World" and a paragraph "Welcome!"
\* have been converted to "\n# Hello World\n\nWelcome!\n".
C20_Witness ==
    /\ conv_n = 6 /\ conv_open = <<>>
    /\ conv_st.output = <<"\n", "#", " ", "H", "e", "l", "l", "o", " ", "W", "o", "r", "l", "d", "\n",
                          "\n", "W", "e", "l", "c", "o", "m", "e", "!", "\n">>

\* C21 (as claimed): the file a connection with a sanitized path resolves
\* to (and reads) is <pages_root>/ followed by a relative path with no ".."
\* component.
C21_FileInsidePagesRoot ==
    \A c \in Conns :
        conn[c].safe_path.some
            => LET f == conn[c].file_path
                   root == pages_dir \o <<"/">>
               IN  /\ Len(f) > Len(root)
                   /\ SubSeq(f, 1, Len(root)) = root
                   /\ ~HasDotDotComponent(SubSeq(f, Len(root) + 1, Len(f)))

\* Connection c has read its file successfully and stored what it returns.
Stored(c) == conn[c].data.some /\ conn[c].pc # "Populating"

\* C22: every key of the text (binary) namespace is the resolved file of a
\* markup (binary) connection that read it successfully, and its value is
\* the conversion (the bytes) of what one such connection read; what a
\* read returns is the content the file holds at that step; a step that
\* changes the cache is the step of a connection that has just read
\* successfully, and a failed read leaves the cache as it was; a request
\* that finds no entry reads the file.
C22_OnlySuccessfulReadsPopulate ==
    /\ [](/\ \A k \in DOMAIN text_cache :
                \E c \in Conns : /\ Stored(c) /\ ~conn[c].static
                                 /\ conn[c].file_path = k
                                 /\ text_cache[k] = Convert(conn[c].data.val)
          /\ \A k \in DOMAIN binary_cache :
                \E c \in Conns : /\ Stored(c) /\ conn[c].static
                                 /\ conn[c].file_path = k
                                 /\ binary_cache[k] = conn[c].data.val)
    /\ [][/\ \A c \in Conns :
                /\ conn'[c].reads # conn[c].reads
                       => /\ conn'[c].reads = conn[c].reads + 1
                          /\ conn[c].file_path \in DOMAIN fs
                          /\ conn'[c].data = fs[conn[c].file_path]
                          /\ UNCHANGED cacheVars
                /\ (conn[c].pc = "AwaitingRequestLine" /\ conn'[c].safe_path.some)
                       => IF conn'[c].file_path \in DOMAIN (IF conn'[c].static
                                                            THEN binary_cache ELSE text_cache)
                          THEN conn'[c].pc = "Responding"
                          ELSE conn'[c].pc = "Dispatching"
          /\ (text_cache' # text_cache \/ binary_cache' # binary_cache)
                 => \E c \in Conns : /\ conn[c].pc = "Populating"
                                     /\ conn[c].data.some
                                     /\ conn'[c].pc = "Responding"]_vars

\* C22 witness: a request for a missing file was answered 51 and left no
\* entry; the file was then created and another request for it read it and
\* was answered 20 with its conversion.
C22_Witness ==
    \E c, d \in Conns :
        /\ conn[c].pc = "Closed"
        /\ conn[c].out = <<[part |-> "status", bytes |-> NotFoundLine]>>
        /\ conn[c].reads = 1 /\ conn[c].data = None
        /\ conn[d].file_path = conn[c].file_path
        /\ conn[d].pc = "Closed" /\ conn[d].reads = 1 /\ conn[d].data.some
        /\ conn[d].out = <<[part |-> "status", bytes |-> "20 text/gemini\r\n"],
                           [part |-> "body", bytes |-> Convert(conn[d].data.val)]>>
        /\ text_cache[conn[d].file_path] = Convert(conn[d].data.val)

\* The status line of a successful response carries meta.
Carries(cn, meta) == cn.status = "20 " \o meta \o "\r\n"

\* C23: a connection answered with success through the binary route
\* carries image/jpeg, image/png or image/gif (so never
\* application/octet-stream), one answered through the markup route
\* carries text/gemini; and two connections answered with success for the
\* same file, from the file or from the cache, carry the same status line.
C23_RouteAndMimeAgree ==
    /\ \A c \in Conns :
           conn[c].body.some
               => IF conn[c].static
                  THEN \E meta \in {"image/jpeg", "image/png", "image/gif"} :
                           Carries(conn[c], meta)
                  ELSE Carries(conn[c], "text/gemini")
    /\ \A c, d \in Conns :
           (conn[c].body.some /\ conn[d].body.some /\ conn[c].file_path = conn[d].file_path)
               => conn[c].status = conn[d].status

\* C23 witness: /a.gif was answered "20 image/gif" from the file to one
\* connection and from the cache to another.
C23_Witness ==
    \E c, d \in Conns :
        /\ conn[c].safe_path = Some(<<"/", "a", ".", "g", "i", "f">>)
        /\ conn[d].safe_path = conn[c].safe_path
        /\ conn[c].reads = 1 /\ conn[d].reads = 0
        /\ conn[c].pc = "Closed" /\ conn[d].pc = "Closed"
        /\ conn[c].out = <<[part |-> "status", bytes |-> "20 image/gif\r\n"],
                           [part |-> "body", bytes |-> ImgA]>>
        /\ conn[d].out = conn[c].out

\* The event kinds the loop handles; every other kind falls to `_ => {}`.
HandledEvents ==
    {"StartHeading", "EndHeading", "StartParagraph", "EndParagraph", "StartLink",
     "EndLink", "StartImage", "Code", "Text", "SoftBreak", "HardBreak"}

\* C24: in_link is true exactly while a link is open, so it is false
\* whenever every link start has met its link end; in_link changes only at
\* a link start (to true) and a link end (to false), the link URL only at a
\* link start, which sets it to the target and empties the link text
\* buffer; the buffer changes otherwise only at a Text event; and an event
\* of a kind that is not handled leaves output, in_link, link URL and link
\* text as they were.
C24_LinkState ==
    /\ [](conv_st.in_link = (OpenLinks(conv_open) # {}))
    /\ [][conv_n' = conv_n + 1
             => LET e == conv_ev'.val
                IN  /\ conv_st'.in_link # conv_st.in_link
                           => \/ (e.ev = "StartLink" /\ conv_st'.in_link)
                              \/ (e.ev = "EndLink" /\ ~conv_st'.in_link)
                    /\ e.ev = "StartLink"
                           => /\ conv_st'.in_link
                              /\ conv_st'.link_url = e.url
                              /\ conv_st'.link_text = <<>>
                              /\ conv_st'.output = conv_st.output
                    /\ e.ev = "EndLink" => ~conv_st'.in_link
                    /\ conv_st'.link_url # conv_st.link_url => e.ev = "StartLink"
                    /\ conv_st'.link_text # conv_st.link_text => e.ev \in {"StartLink", "Text"}
                    /\ e.ev \notin HandledEvents => conv_st' = conv_st]_vars

\* C24 witness: after a paragraph holding a link with text, a rule (an
\* event that is not handled) has left everything as the paragraph end
\* left it: in_link false, the output ending with the link's line.
C24_Witness ==
    /\ conv_ev = Some([ev |-> "Rule"])
    /\ conv_n = 6 /\ conv_open = <<>>
    /\ ~conv_st.in_link
    /\ conv_st.link_url = <<"y">>
    /\ conv_st.link_text = <<"W", "e", "l", "c", "o", "m", "e", "!">>
    /\ conv_st.output = <<"\n">> \o GeminiLink(<<"y">>, <<"W", "e", "l", "c", "o", "m", "e", "!">>)
                                 \o <<"\n">>

====
